---- MODULE Spec2Model ----
(***************************************************************************)
(* A model of glpi-sdk-python (src/glpi/glpi.py): the GlpiService client   *)
(* (construction, session token, request pipeline, item helpers) and the   *)
(* GLPI generic router (item map, init_api, init_item, item operations).   *)
(*                                                                         *)
(* Python values are modelled as follows.  A value that is a string or     *)
(* None is a TLA+ string, None being the marker string None.  Python       *)
(* dictionaries are TLA+ functions over their key sets.  Strings are real  *)
(* strings and are built by concatenation as the code builds them.         *)
(* Every HTTP exchange is the call the code issues plus a response drawn   *)
(* from a bounded set; the calls of the last operation are kept in calls.  *)
(***************************************************************************)
EXTENDS Integers, Sequences, FiniteSets, TLC

\* The field names of the records of the model.  Every record below lists its
\* fields in the order of this list, which is then the order TLC keeps the fields
\* of a record in: no record it builds has to be put in order afterwards.
FieldOrder ==
    [ is_none |-> TRUE, t |-> TRUE, d |-> TRUE, kind |-> TRUE,
      status_code |-> TRUE, parsable |-> TRUE, body |-> TRUE, objects |-> TRUE,
      type |-> TRUE, msg |-> TRUE, services |-> TRUE, token |-> TRUE,
      ok |-> TRUE, obj |-> TRUE, method |-> TRUE, url |-> TRUE,
      app_token |-> TRUE, uri |-> TRUE, auth |-> TRUE, headers |-> TRUE,
      calls |-> TRUE, result |-> TRUE, bool |-> TRUE, str |-> TRUE,
      key |-> TRUE, val |-> TRUE, response |-> TRUE, error_message |-> TRUE,
      auth_token |-> TRUE, item_uri |-> TRUE, item_map |-> TRUE,
      api_rest |-> TRUE, api_session |-> TRUE, message_error |-> TRUE,
      session_token |-> TRUE, list |-> TRUE, message_info |-> TRUE,
      items |-> TRUE, heap |-> TRUE, accept_json |-> TRUE, n |-> TRUE,
      s |-> TRUE, name |-> TRUE, content |-> TRUE, field |-> TRUE,
      keys |-> TRUE, item_name |-> TRUE, criteria |-> TRUE, resp |-> TRUE,
      params |-> TRUE, json |-> TRUE, data |-> TRUE, files |-> TRUE,
      by_default |-> TRUE, args |-> TRUE, token_app |-> TRUE,
      username |-> TRUE, password |-> TRUE, token_auth |-> TRUE,
      session |-> TRUE, use_vcap_services |-> TRUE, env |-> TRUE,
      item_id |-> TRUE, object_data |-> TRUE, session_id |-> TRUE,
      item_data |-> TRUE, item |-> TRUE, attr |-> TRUE, value |-> TRUE,
      attributes |-> TRUE ]

VARIABLES
    service,    \* the GlpiService object used directly (NoObject before construction)
    glpi,       \* the GLPI router object, its api_rest client included
    op,         \* the last operation called, with its arguments
    pre,        \* the object (service or router) as it was before the last operation
    calls,      \* the HTTP calls issued by the last operation, in order
    result,     \* what the last operation returned or raised
    response,   \* the response object of the last resource call, as request() left it
    n_init,     \* number of initSession calls issued so far
    items,      \* the GlpiItem objects constructed, in order of construction
    heap        \* the attribute mappings the items refer to, by address

vars == <<service, glpi, op, pre, calls, result, response, n_init, items, heap>>

(***************************************************************************)
(* Bounds of the model                                                     *)
(***************************************************************************)
\* initSession calls after which no further operation is started
MaxInit == 2

\* GlpiItem objects constructed at most
MaxItems == 2

(***************************************************************************)
(* Python values                                                           *)
(***************************************************************************)
None == "None"

\* an absent object (a Python None where an object is expected)
NoObject == [is_none |-> TRUE]

\* an empty dictionary
EmptyDict == [k \in {} |-> None]

\* the booleans as dictionary values
PyTrue == "True"
PyFalse == "False"

\* an argument that may be None, a string or a dictionary
PyNone == [t |-> "none"]
PyStr(s) == [t |-> "str", s |-> s]
PyDict(d) == [t |-> "dict", d |-> d]

\* the response variable when no resource call was made
NoResponse ==
    [kind |-> "none", status_code |-> 0, parsable |-> FALSE, body |-> EmptyDict,
     objects |-> EmptyDict]

Version == "0.1.0"

\* str.lower() on the header names that occur
Lower(s) ==
    CASE s = "Session-Token" -> "session-token"
      [] s = "SESSION-TOKEN" -> "session-token"
      [] s = "App-Token" -> "app-token"
      [] s = "app-token" -> "app-token"
      [] s = "X-Trace" -> "x-trace"
      [] OTHER -> s

\* '%d' % n for a non-negative integer
RECURSIVE FormatD(_)
FormatD(n) ==
    LET digit(d) == CASE d = 0 -> "0" [] d = 1 -> "1" [] d = 2 -> "2"
                      [] d = 3 -> "3" [] d = 4 -> "4" [] d = 5 -> "5"
                      [] d = 6 -> "6" [] d = 7 -> "7" [] d = 8 -> "8"
                      [] d = 9 -> "9"
    IN IF n < 10 THEN digit(n) ELSE FormatD(n \div 10) \o digit(n % 10)

\* The one element of a singleton set.  An intermediate result is bound as the
\* element of a singleton, x \in {e}, where it is used more than once: the bound
\* name then stands for the value of e.
The(S) == CHOOSE x \in S : TRUE

\* what an operation returns / raises
Return(type, value) == [kind |-> "return", type |-> type, value |-> value]
Raise(type, msg) == [kind |-> "raise", type |-> type, value |-> [msg |-> msg]]
NoResult == [kind |-> "none", type |-> None, value |-> EmptyDict]

(***************************************************************************)
(* The inputs: constructor arguments, environment, server responses        *)
(***************************************************************************)
BaseUrl == "http://glpi/apirest.php"
VcapUrl == "http://vcap/apirest.php"

AppTokens == {None, "app"}
Usernames == {None, "glpi", "YOUR SERVICE USERNAME"}
Passwords == {None, "secret", "YOUR SERVICE PASSWORD"}
AuthTokens == {None, "auth", "YOUR AUTH TOKEN"}

\* os.getenv("VCAP_SERVICES") parsed: None, or service name -> first credentials
VcapEnvs ==
    { NoObject,
      [services |-> EmptyDict],
      [services |-> ("glpi" :> ("url" :> VcapUrl @@ "username" :> "vuser"
                                 @@ "password" :> "vpass"))],
      [services |-> ("glpi" :> ("url" :> VcapUrl @@ "token_auth" :> "vauth"
                                 @@ "app_token" :> "vapp"))],
      [services |-> ("glpi" :> ("username" :> "vuser" @@ "password" :> "vpass"))] }

\* session tokens the server hands out
Tokens == {"s1", "s2"}

\* the outcomes of GET <url>/initSession
InitResponses ==
    { [kind |-> "transport_error", token |-> None],
      [kind |-> "bad_body", token |-> None] }
    \cup { [kind |-> "ok", token |-> t] : t \in Tokens }

\* JSON object bodies: any subset of the keys, each with one of its values
BodyVals(k) == IF k = "status" THEN {"ERROR", "OK"}
               ELSE {"invalid-app-token", "ERROR_ITEM_NOT_FOUND"}
Bodies ==
    UNION { { b \in [D -> {"ERROR", "OK", "invalid-app-token", "ERROR_ITEM_NOT_FOUND"}] :
                \A k \in D : b[k] \in BodyVals(k) } :
            D \in SUBSET {"status", "statusInfo"} }

StatusCodes == {200, 299, 401, 404}

\* an HTTP response; parsable tells whether its body is JSON.  Of a JSON object,
\* body holds the entries whose value is a string and objects the entries whose
\* value is itself an object.
HttpResponse(status_code, parsable, body) ==
    [kind |-> "http", status_code |-> status_code, parsable |-> parsable, body |-> body,
     objects |-> EmptyDict]

\* a response whose JSON object has object-valued entries too
HttpResponseWith(status_code, body, objects) ==
    [kind |-> "http", status_code |-> status_code, parsable |-> TRUE, body |-> body,
     objects |-> objects]

\* requests.request raising instead of returning a response
TransportError ==
    [kind |-> "transport_error", status_code |-> 0, parsable |-> FALSE, body |-> EmptyDict,
     objects |-> EmptyDict]

\* the outcomes of a resource call
Responses ==
    { HttpResponse(s, TRUE, b) : s \in StatusCodes, b \in Bodies }
    \cup { HttpResponse(s, FALSE, EmptyDict) : s \in StatusCodes }
    \cup { TransportError }

(***************************************************************************)
(* load_from_vcap_services and the small helpers                           *)
(***************************************************************************)
\* the credentials of service_name as a dictionary, or None
load_from_vcap_services(env, service_name) ==
    IF "services" \in DOMAIN env
    THEN IF service_name \in DOMAIN env.services
         THEN PyDict(env.services[service_name])
         ELSE PyNone
    ELSE PyNone

\* a dictionary without its None-valued keys; anything else as it is
_remove_null_values(dictionary) ==
    IF dictionary.t = "dict"
    THEN PyDict([k \in {x \in DOMAIN dictionary.d : dictionary.d[x] # None} |-> dictionary.d[k]])
    ELSE dictionary

_cleanup_param_value(value) ==
    IF value \in {PyTrue, PyFalse}
    THEN IF value = PyTrue THEN "true" ELSE "false"
    ELSE value

_cleanup_param_values(dictionary) ==
    IF dictionary.t = "dict"
    THEN PyDict([k \in DOMAIN dictionary.d |-> _cleanup_param_value(dictionary.d[k])])
    ELSE dictionary

(***************************************************************************)
(* GlpiService.__init__ with set_username_and_password and set_token_auth  *)
(***************************************************************************)
set_username_and_password(self, username, password) ==
    [self EXCEPT !.username = IF username = "YOUR SERVICE USERNAME" THEN None ELSE username,
                 !.password = IF password = "YOUR SERVICE PASSWORD" THEN None ELSE password]

set_token_auth(self, token_auth) ==
    [self EXCEPT !.token_auth = IF token_auth = "YOUR AUTH TOKEN" THEN None ELSE token_auth]

\* a variant of CredentialsConflict that wants username and password both set
CredentialsConflict_Both(username, password, token_auth) ==
    token_auth # None /\ (username # None /\ password # None)

\* line 90-91: token_auth given together with username or password
CredentialsConflict(username, password, token_auth) ==
    token_auth # None /\ (username # None \/ password # None)

\* lines 98-112: the fields taken from the environment's credentials
ApplyVcap(self, use_vcap_services, env, vcap_services_name) ==
    IF use_vcap_services /\ self.username \in {None, ""} /\ self.token_auth \in {None, ""}
    THEN LET vcap_service_credentials == load_from_vcap_services(env, vcap_services_name)
             cred == vcap_service_credentials.d
         IN
         IF vcap_service_credentials.t = "dict"
         THEN IF "url" \notin DOMAIN cred
              THEN [ok |-> FALSE, obj |-> self]
              ELSE LET pick(field, old) == IF field \in DOMAIN cred THEN cred[field] ELSE old
                   IN [ok |-> TRUE,
                       obj |-> [self EXCEPT !.url = cred["url"],
                                            !.username = pick("username", @),
                                            !.password = pick("password", @),
                                            !.token_auth = pick("token_auth", @),
                                            !.app_token = pick("app_token", @)]]
         ELSE [ok |-> TRUE, obj |-> self]
    ELSE [ok |-> TRUE, obj |-> self]

\* lines 114-122: the final validation of the constructed object
ValidateCredentials(self) ==
    IF self.app_token = None
    THEN Raise("GlpiException",
               "You must specify GLPI API-Token(app_token) to make API calls")
    ELSE IF (self.username = None \/ self.password = None) /\ self.token_auth = None
    THEN Raise("GlpiException",
               "You must specify your username and password, or token_authservice credentials ")
    ELSE Return("GlpiService", EmptyDict)

\* the constructor: [obj, result]; obj is the new object when result is a return
GlpiService_init(url_apirest, token_app, uri, username, password, token_auth, use_vcap_services, vcap_services_name, env) ==
    LET self0 == [url |-> url_apirest, app_token |-> token_app, uri |-> uri,
                  username |-> username, password |-> password,
                  token_auth |-> token_auth, session |-> None]
    IN IF CredentialsConflict(username, password, token_auth)
       THEN [obj |-> NoObject,
             result |-> Raise("GlpiInvalidArgument",
                              "Cannot set token_auth and username and password together")]
       ELSE LET self1 == IF token_auth # None
                         THEN set_token_auth(self0, token_auth)
                         ELSE set_username_and_password(self0, username, password)
                v == ApplyVcap(self1, use_vcap_services, env, vcap_services_name)
            IN IF ~v.ok
               THEN [obj |-> NoObject, result |-> Raise("KeyError", "url")]
               ELSE LET r == ValidateCredentials(v.obj)
                    IN [obj |-> IF r.kind = "return" THEN v.obj ELSE NoObject,
                        result |-> r]

(***************************************************************************)
(* Session token                                                           *)
(***************************************************************************)
\* an HTTP call as handed to requests.request; json and files are arguments
\* of requests.request that neither call site passes, so they keep its default
HttpCall(method, url, auth, headers, params, data) ==
    [method |-> method, url |-> url, auth |-> auth, headers |-> headers,
     params |-> params, json |-> PyNone, data |-> data, files |-> PyNone]

\* the auth argument of the initSession call (lines 158-161)
SessionAuth(self) ==
    IF self.token_auth # None
    THEN [kind |-> "token", token |-> self.token_auth]
    ELSE [kind |-> "basic", username |-> self.username, password |-> self.password]

\* the initSession call of set_session_token (lines 152-164)
InitSessionCall(self) ==
    HttpCall("GET", self.url \o "/initSession", SessionAuth(self),
             ("App-Token" :> self.app_token @@ "Content-Type" :> "application/json"),
             PyNone, PyNone)

\* set_session_token: [obj, calls, result]
set_session_token(self, ir) ==
    LET call == InitSessionCall(self) IN
    CASE ir.kind = "transport_error" ->
           [obj |-> self, calls |-> <<call>>,
            result |-> Raise("ConnectionError", "transport")]
      [] ir.kind = "bad_body" ->
           [obj |-> self, calls |-> <<call>>,
            result |-> Raise("Exception", "Unable to init session in GLPI server: ")]
      [] OTHER ->
           [obj |-> [self EXCEPT !.session = ir.token], calls |-> <<call>>,
            result |-> Return("bool", [bool |-> TRUE])]

\* get_session_token: [obj, calls, result]
get_session_token(self, ir) ==
    IF self.session # None
    THEN [obj |-> self, calls |-> <<>>, result |-> Return("str", [str |-> self.session])]
    ELSE The({ IF s.result.kind = "raise"
               THEN s
               ELSE [s EXCEPT !.result = Return("str", [str |-> s.obj.session])] :
               s \in {set_session_token(self, ir)} })

\* a variant of update_session_token that stores whatever it is given
update_session_token_Always(self, session_id) ==
    LET obj == [self EXCEPT !.session = session_id]
    IN [obj |-> obj, calls |-> <<>>, result |-> Return("str", [str |-> obj.session])]

\* update_session_token: [obj, calls, result]
update_session_token(self, session_id) ==
    LET obj == IF session_id \notin {None, ""}
               THEN [self EXCEPT !.session = session_id] ELSE self
    IN [obj |-> obj, calls |-> <<>>, result |-> Return("str", [str |-> obj.session])]

(***************************************************************************)
(* request                                                                 *)
(***************************************************************************)
\* CaseInsensitiveDict: lower-cased key -> the key as last set and its value
CIDict(d) ==
    [k \in {Lower(n) : n \in DOMAIN d} |->
        LET n == CHOOSE n \in DOMAIN d : Lower(n) = k IN [key |-> n, val |-> d[n]]]

\* CaseInsensitiveDict.update(d)
CIUpdate(cid, d) ==
    LET new == CIDict(d) IN
    [k \in DOMAIN cid \cup DOMAIN new |-> IF k \in DOMAIN new THEN new[k] ELSE cid[k]]

\* the headers of the resource call (lines 243-261), self.session being set
RequestHeaders(self, accept_json, headers) ==
    LET input_headers == IF headers.t = "dict" /\ DOMAIN headers.d # {}
                         THEN _remove_null_values(headers).d
                         ELSE EmptyDict
        h0 == CIDict("user-agent" :> ("glpi-sdk-python-" \o Version))
        h1 == IF accept_json THEN CIUpdate(h0, "accept" :> "application/json") ELSE h0
        h2 == CIUpdate(h1, "Session-Token" :> self.session)
        h3 == IF self.app_token # None THEN CIUpdate(h2, "App-Token" :> self.app_token)
              ELSE h2
    IN CIUpdate(h3, input_headers)

\* 'text' + error_json[k]: the concatenation, or the TypeError of adding an
\* object to a string
AddEntry(text, resp, k) ==
    IF k \in DOMAIN resp.objects
    THEN [ok |-> FALSE, str |-> text]
    ELSE [ok |-> TRUE, str |-> text \o resp.body[k]]

\* _get_error_message: the message for a response that is neither 2xx nor 401.
\* Whatever is raised on the way (the body is not JSON, an object is added to
\* a string) leaves the message at 'Unknown error'.
_get_error_message(resp) ==
    IF ~resp.parsable
    THEN "Unknown error"
    ELSE LET has(k) == k \in DOMAIN resp.body \cup DOMAIN resp.objects
             m1 == CASE has("error") ->
                          IF "error" \in DOMAIN resp.objects
                             /\ "description" \in DOMAIN resp.objects["error"]
                          THEN [ok |-> TRUE,
                                str |-> "Error: " \o resp.objects["error"]["description"]]
                          ELSE AddEntry("Error: ", resp, "error")
                     [] ~has("error") /\ has("error_message") ->
                          AddEntry("Error: ", resp, "error_message")
                     [] ~has("error") /\ ~has("error_message") /\ has("msg") ->
                          AddEntry("Error: ", resp, "msg")
                     [] ~has("error") /\ ~has("error_message") /\ ~has("msg")
                          /\ has("statusInfo") ->
                          AddEntry("Error: ", resp, "statusInfo")
                     [] OTHER -> [ok |-> TRUE, str |-> "Unknown error"]
             m2 == IF m1.ok /\ has("description")
                   THEN AddEntry(m1.str \o ", Description: ", resp, "description")
                   ELSE m1
         IN IF ~m2.ok THEN "Unknown error"
            ELSE m2.str \o ", Code: " \o FormatD(resp.status_code)

\* a variant of HandleResponse that never re-maps an application error to 401
HandleResponse_No401(accept_json, resp) ==
    IF 200 <= resp.status_code /\ resp.status_code <= 299
    THEN IF accept_json
         THEN IF ~resp.parsable
              THEN [result |-> Raise("ValueError", "No JSON object could be decoded"),
                    response |-> resp]
              ELSE IF "status" \in DOMAIN resp.body /\ resp.body["status"] = "ERROR"
              THEN LET error_message == IF "statusInfo" \in DOMAIN resp.body
                                        THEN resp.body["statusInfo"]
                                        ELSE "Unknown error"
                   IN [result |-> Raise("GlpiException", "Error: " \o error_message),
                       response |-> [resp EXCEPT !.status_code = 400]]
              ELSE [result |-> Return("json", resp.body), response |-> resp]
         ELSE [result |-> Return("response", resp), response |-> resp]
    ELSE IF resp.status_code = 401
    THEN [result |-> Raise("GlpiException",
                 "Unauthorized: Access is denied due to invalid credentials "),
          response |-> resp]
    ELSE [result |-> Raise("GlpiException", _get_error_message(resp)), response |-> resp]

\* lines 274-295: what request() makes of the response: [result, response]
HandleResponse(accept_json, resp) ==
    IF 200 <= resp.status_code /\ resp.status_code <= 299
    THEN IF accept_json
         THEN IF ~resp.parsable
              THEN [result |-> Raise("ValueError", "No JSON object could be decoded"),
                    response |-> resp]
              ELSE IF "status" \in DOMAIN resp.body /\ resp.body["status"] = "ERROR"
              THEN LET error_message == IF "statusInfo" \in DOMAIN resp.body
                                        THEN resp.body["statusInfo"]
                                        ELSE "Unknown error"
                       code == IF error_message = "invalid-app-token" THEN 401 ELSE 400
                   IN [result |-> Raise("GlpiException", "Error: " \o error_message),
                       response |-> [resp EXCEPT !.status_code = code]]
              ELSE [result |-> Return("json", resp.body), response |-> resp]
         ELSE [result |-> Return("response", resp), response |-> resp]
    ELSE IF resp.status_code = 401
    THEN [result |-> Raise("GlpiException",
                 "Unauthorized: Access is denied due to invalid credentials "),
          response |-> resp]
    ELSE [result |-> Raise("GlpiException", _get_error_message(resp)), response |-> resp]

\* request: [obj, calls, result, response]
request(self, method, url, accept_json, headers, params, json, data, files, ir, resp) ==
    The({ IF s.result.kind = "raise"
          THEN [obj |-> s.obj, calls |-> s.calls,
                result |-> Raise("Exception", "Unable to get Session token. ERROR: "),
                response |-> NoResponse]
          ELSE [obj |-> s.obj,
                calls |-> Append(s.calls,
                            HttpCall(method, self.url \o url, NoObject,
                                     RequestHeaders(s.obj, accept_json, headers),
                                     _cleanup_param_values(_remove_null_values(params)),
                                     _remove_null_values(data))),
                result |-> h.result, response |-> h.response] :
          s \in { IF self.session = None THEN set_session_token(self, ir)
                  ELSE [obj |-> self, calls |-> <<>>, result |-> NoResult] },
          h \in { IF resp.kind = "transport_error"
                  THEN [result |-> Raise("ConnectionError", "transport"),
                        response |-> NoResponse]
                  ELSE HandleResponse(accept_json, resp) } })

(***************************************************************************)
(* Generic item methods of GlpiService                                     *)
(***************************************************************************)
\* get_payload: the attributes as the inside of a JSON object, built by hand.
\* data_req is the dictionary as the sequence of its <<key, value>> in iteration
\* order; a value is [t |-> "str" or "int", s |-> its text]
RECURSIVE PayloadFrom(_, _)
PayloadFrom(data_req, data_str) ==
    IF data_req = <<>>
    THEN data_str
    ELSE LET k == Head(data_req)[1]
             v == Head(data_req)[2]
             sep == IF data_str # "" THEN data_str \o "," ELSE data_str
             next == IF v.t = "str" /\ v.s = "<DEFAULT_NULL>"
                     THEN sep \o " \"" \o k \o "\": null"
                     ELSE IF v.t = "str"
                     THEN sep \o " \"" \o k \o "\": \"" \o v.s \o "\""
                     ELSE sep \o " \"" \o k \o "\": " \o v.s
         IN PayloadFrom(Tail(data_req), next)

get_payload(data_req) == PayloadFrom(data_req, "")

\* res.json() on what request() returned without accept_json
ResponseJson(r) ==
    IF r.result.kind = "return"
    THEN IF r.result.value.parsable
         THEN [r EXCEPT !.result = Return("json", r.result.value.body)]
         ELSE [r EXCEPT !.result = Raise("ValueError", "No JSON object could be decoded")]
    ELSE r

\* get_all: [obj, calls, result, response]
GlpiService_get_all(self, ir, resp) ==
    The({ ResponseJson(res) :
          res \in { request(self, "GET", self.uri, FALSE, PyDict(EmptyDict),
                            PyNone, PyNone, PyNone, PyNone, ir, resp) } })

\* an item id: [t |-> "int", n |-> the integer] or [t |-> "str", s |-> the text]
GlpiService_get(self, item_id, ir, resp) ==
    IF item_id.t = "int"
    THEN LET uri == "/" \o self.uri \o "/" \o FormatD(item_id.n)
         IN The({ ResponseJson(response_) :
                  response_ \in { request(self, "GET", uri, FALSE, PyDict(EmptyDict),
                                          PyNone, PyNone, PyNone, PyNone, ir, resp) } })
    ELSE [obj |-> self, calls |-> <<>>,
          result |-> Return("dict",
              [error_message |-> "Unale to get " \o self.uri \o " ID [" \o item_id.s \o "]"]),
          response |-> NoResponse]

\* create: object_data is NoObject for None, else the attributes
GlpiService_create(self, object_data, ir, resp) ==
    IF object_data = NoObject
    THEN [obj |-> self, calls |-> <<>>,
          result |-> Return("str", [str |-> "{ 'error_message' : 'Object not found.'}"]),
          response |-> NoResponse]
    ELSE LET payload == "{\"input\": { " \o get_payload(object_data.items) \o " }}"
         IN request(self, "POST", self.uri, TRUE, PyDict(EmptyDict),
                    PyNone, PyNone, PyStr(payload), PyNone, ir, resp)

GlpiService_search_options(self, item_name, ir, resp) ==
    LET new_uri == self.uri \o "/" \o item_name
    IN request(self, "GET", new_uri, TRUE, PyDict(EmptyDict),
               PyNone, PyNone, PyNone, PyNone, ir, resp)

(***************************************************************************)
(* The GLPI router                                                         *)
(***************************************************************************)
DefaultItemMap ==
    "ticket" :> "/Ticket" @@ "knowbase" :> "/knowbaseitem"
    @@ "listSearchOptions" :> "/listSearchOptions"

\* GLPI.__init__
GLPI_init(url, app_token, auth_token, item_map) ==
    [url |-> url, app_token |-> app_token, auth_token |-> auth_token,
     item_uri |-> None,
     item_map |-> IF item_map # NoObject THEN item_map.d ELSE DefaultItemMap,
     api_rest |-> NoObject, api_session |-> None]

\* set_item, for an item_name of the map
set_item(self, item_name) == [self EXCEPT !.item_uri = self.item_map[item_name]]

set_item_map(self, item_map) == [self EXCEPT !.item_map = item_map]

\* set_api_uri
set_api_uri(self) == [self EXCEPT !.api_rest.uri = self.item_uri]

\* init_api: [obj, calls, result]
init_api(self, ir) ==
    IF self.item_uri = None
    THEN [obj |-> self, calls |-> <<>>,
          result |-> Return("dict",
                       [message_error |-> "Please use set_item() before init API."])]
    ELSE The({
           IF c.result.kind = "raise"
           THEN [obj |-> self, calls |-> <<>>, result |-> c.result]
           ELSE The({
                  IF t.result.kind = "raise"
                  THEN [obj |-> [self EXCEPT !.api_rest = t.obj],
                        calls |-> t.calls, result |-> t.result]
                  ELSE [obj |-> [self EXCEPT !.api_rest = t.obj,
                                             !.api_session = t.result.value.str],
                        calls |-> t.calls,
                        result |-> IF t.result.value.str # None
                                   THEN Return("dict",
                                          [session_token |-> t.result.value.str])
                                   ELSE Return("dict",
                                          [message_error |->
                                             "Unable to InitSession in GLPI Server."])] :
                  t \in { get_session_token(c.obj, ir) } }) :
           c \in { GlpiService_init(self.url, self.app_token, self.item_uri,
                                    None, None, self.auth_token, FALSE, None, NoObject) } })

\* a variant of init_item that does not pass a new item path on to the client
init_item_NoRebind(self, item_name, ir) ==
    IF item_name \notin DOMAIN self.item_map
    THEN [obj |-> self, calls |-> <<>>, result |-> Raise("KeyError", item_name)]
    ELSE LET update_api == self.item_uri # self.item_map[item_name]
             self1 == IF update_api THEN set_item(self, item_name) ELSE self
         IN The({ IF a.result.kind = "raise"
                  THEN [obj |-> a.obj, calls |-> a.calls,
                        result |-> Return("bool", [bool |-> FALSE])]
                  ELSE [obj |-> a.obj, calls |-> a.calls,
                        result |-> Return("bool", [bool |-> TRUE])] :
                  a \in { IF self1.api_rest = NoObject THEN init_api(self1, ir)
                          ELSE [obj |-> self1, calls |-> <<>>, result |-> NoResult] } })

\* init_item: [obj, calls, result]; the result is the boolean returned, or the
\* KeyError of the item_map lookup
init_item(self, item_name, ir) ==
    IF item_name \notin DOMAIN self.item_map
    THEN [obj |-> self, calls |-> <<>>, result |-> Raise("KeyError", item_name)]
    ELSE LET update_api == self.item_uri # self.item_map[item_name]
             self1 == IF update_api THEN set_item(self, item_name) ELSE self
         IN The({ IF a.result.kind = "raise"
                  THEN [obj |-> a.obj, calls |-> a.calls,
                        result |-> Return("bool", [bool |-> FALSE])]
                  ELSE [obj |-> IF update_api THEN set_api_uri(a.obj) ELSE a.obj,
                        calls |-> a.calls, result |-> Return("bool", [bool |-> TRUE])] :
                  a \in { IF self1.api_rest = NoObject THEN init_api(self1, ir)
                          ELSE [obj |-> self1, calls |-> <<>>, result |-> NoResult] } })

\* whether init_item let the operation go on to the client
Ready(i) == i.result.kind = "return" /\ i.result.value.bool

\* what an item operation gives when init_item did not: the KeyError, or the
\* error object of the operation
NotReady(i, message_error) ==
    IF i.result.kind = "raise"
    THEN [obj |-> i.obj, calls |-> i.calls, result |-> i.result, response |-> NoResponse]
    ELSE [obj |-> i.obj, calls |-> i.calls,
          result |-> Return("dict", [message_error |-> message_error]),
          response |-> NoResponse]

\* the outcome r of the client's operation, after init_item's outcome i
Delegated(i, r) ==
    [obj |-> [i.obj EXCEPT !.api_rest = r.obj], calls |-> i.calls \o r.calls,
     result |-> r.result, response |-> r.response]

GLPI_get_all(self, item_name, ir1, ir2, resp) ==
    The({ IF ~Ready(i) THEN NotReady(i, "Unable to get Item in GLPI Server.")
          ELSE The({ Delegated(i, r) :
                     r \in { GlpiService_get_all(i.obj.api_rest, ir2, resp) } }) :
          i \in { init_item(self, item_name, ir1) } })

GLPI_get(self, item_name, item_id, ir1, ir2, resp) ==
    The({ IF ~Ready(i) THEN NotReady(i, "Unable to get Item by ID in GLPI Server.")
          ELSE The({ Delegated(i, r) :
                     r \in { GlpiService_get(i.obj.api_rest, item_id, ir2, resp) } }) :
          i \in { init_item(self, item_name, ir1) } })

GLPI_create(self, item_name, item_data, ir1, ir2, resp) ==
    The({ IF ~Ready(i) THEN NotReady(i, "Unable to create an Item in GLPI Server.")
          ELSE The({ Delegated(i, r) :
                     r \in { GlpiService_create(i.obj.api_rest, item_data, ir2, resp) } }) :
          i \in { init_item(self, item_name, ir1) } })

GLPI_search_options(self, item_name, ir1, ir2, resp) ==
    The({ IF ~Ready(i) THEN NotReady(i, "Unable to create an Item in GLPI Server.")
          ELSE The({ Delegated(i, r) :
                     r \in { GlpiService_search_options(i.obj.api_rest, item_name,
                                                        ir2, resp) } }) :
          i \in { init_item(self, "listSearchOptions", ir1) } })

(***************************************************************************)
(* search.  The strings search compares are sequences of characters; a     *)
(* JSON array is [list |-> its elements], an item of it a dictionary from  *)
(* field names to strings.                                                 *)
(***************************************************************************)
\* str.lower() on a character
CharLower(c) ==
    CASE c = "A" -> "a"
      [] c = "B" -> "b"
      [] c = "C" -> "c"
      [] OTHER -> c

\* str.lower()
str_lower(s) == [i \in 1..Len(s) |-> CharLower(s[i])]

\* a in b, for strings
str_in(a, b) ==
    \E i \in 0..(Len(b) - Len(a)) : \A j \in 1..Len(a) : b[i + j] = a[j]

\* a variant of CriterionFound that compares the strings as they are
CriterionFound_CaseSensitive(d, c) == str_in(c.value, d[c.field])

\* line 528: the test of criterion c on item d, which has the field
CriterionFound(d, c) == str_in(str_lower(c.value), str_lower(d[c.field]))

\* lines 525-531: the loop over the items, kept being the items kept so far;
\* every criterion is looked up in every item reached, a missing field raising
RECURSIVE SearchLoop(_, _, _)
SearchLoop(data, criteria, kept) ==
    IF data = <<>>
    THEN Return("list", [list |-> kept])
    ELSE LET d == Head(data)
             missing == {i \in DOMAIN criteria : criteria[i].field \notin DOMAIN d}
         IN IF missing # {}
            THEN Raise("KeyError",
                       criteria[CHOOSE i \in missing : \A j \in missing : i <= j].field)
            ELSE SearchLoop(Tail(data), criteria,
                            IF \E i \in DOMAIN criteria : CriterionFound(d, criteria[i])
                            THEN Append(kept, d) ELSE kept)

\* search_criteria: data is what get_all returned, a JSON array or a dictionary;
\* iterating a dictionary gives its keys, which cannot be indexed by a field
search_criteria(data, criteria) ==
    IF "list" \in DOMAIN data
    THEN SearchLoop(data.list, criteria, <<>>)
    ELSE IF DOMAIN data = {} \/ criteria = <<>>
    THEN Return("list", [list |-> <<>>])
    ELSE Raise("TypeError", "string indices must be integers")

search_metacriteria(metacriteria) ==
    Return("dict", [message_info |-> "Not implemented yet"])

\* a variant of GLPI_search that fetches the items before it looks at the keys
GLPI_search_FetchFirst(self, item_name, criteria, ir1, ir2, resp) ==
    The({ IF "criteria" \in criteria.keys
          THEN IF r.result.kind = "raise" THEN r
               ELSE [r EXCEPT !.result = search_criteria(r.result.value, criteria.criteria)]
          ELSE IF "metacriteria" \in criteria.keys
          THEN [r EXCEPT !.result = search_metacriteria(criteria.keys)]
          ELSE [r EXCEPT !.result =
                  Return("dict", [message_error |-> "Unable to find a valid criteria."])] :
          r \in { GLPI_get_all(self, item_name, ir1, ir2, resp) } })

\* search: criteria is the dictionary given, as its key set and the value of
\* its criteria key
GLPI_search(self, item_name, criteria, ir1, ir2, resp) ==
    IF "criteria" \in criteria.keys
    THEN The({ IF r.result.kind = "raise" THEN r
               ELSE [r EXCEPT !.result = search_criteria(r.result.value, criteria.criteria)] :
               r \in { GLPI_get_all(self, item_name, ir1, ir2, resp) } })
    ELSE IF "metacriteria" \in criteria.keys
    THEN [obj |-> self, calls |-> <<>>,
          result |-> search_metacriteria(criteria.keys),
          response |-> NoResponse]
    ELSE [obj |-> self, calls |-> <<>>,
          result |-> Return("dict", [message_error |-> "Unable to find a valid criteria."]),
          response |-> NoResponse]

(***************************************************************************)
(* GlpiItem.  An item refers to its attribute mapping by address, so that  *)
(* two items may refer to one mapping.  The mapping at DefaultData is the  *)
(* one the def statement of __init__ creates for its default argument.     *)
(***************************************************************************)
DefaultData == 0

\* The mappings an item can refer to are the default one and those made for
\* itself: the one handed to its __init__ and the ones its unset_attributes
\* create.  Of the latter only the last is in use, kept at the item's index.
Addresses == 0..MaxItems

\* GlpiItem.__init__: data is None when the argument is left out, else the
\* mapping supplied; by_default records which, the item has no such field
GlpiItem_init(its, hp, data) ==
    IF data.t = "none"
    THEN [items |-> Append(its, [data |-> DefaultData, by_default |-> TRUE]), heap |-> hp]
    ELSE LET a == Len(its) + 1 IN
         [items |-> Append(its, [data |-> a, by_default |-> FALSE]),
          heap |-> [hp EXCEPT ![a] = data.d]]

\* get_attribute: the value, None without the attribute
get_attribute(self, hp, attr) ==
    IF attr \in DOMAIN hp[self.data] THEN hp[self.data][attr] ELSE None

\* a variant of set_attribute that keeps no other attribute
set_attribute_Only(self, hp, attr, value) ==
    [hp EXCEPT ![self.data] = [k \in {attr} |-> value]]

\* set_attribute: the heap after self.data[attr] = value
set_attribute(self, hp, attr, value) ==
    [hp EXCEPT ![self.data] =
        [k \in DOMAIN @ \cup {attr} |-> IF k = attr THEN value ELSE @[k]]]

\* set_attributes: the heap after the loop over attributes
set_attributes(self, hp, attributes) ==
    [hp EXCEPT ![self.data] =
        [k \in DOMAIN @ \cup DOMAIN attributes |->
            IF k \in DOMAIN attributes THEN attributes[k] ELSE @[k]]]

\* unset_attributes on item i: self.data = {}, a new mapping
unset_attributes(its, hp, i) ==
    [items |-> [its EXCEPT ![i].data = i], heap |-> [hp EXCEPT ![i] = EmptyDict]]

(***************************************************************************)
(* The inputs of the operations                                            *)
(***************************************************************************)
\* caller-supplied headers of request()
CallerHeaders ==
    { EmptyDict,
      "X-Trace" :> "t1",
      "Session-Token" :> "forged",
      "SESSION-TOKEN" :> "forged",
      "app-token" :> "forged",
      "Session-Token" :> None,
      "Session-Token" :> "forged" @@ "App-Token" :> "forged" }

\* responses that tell the outcomes of a call apart, for the operations whose
\* subject is the call and not the response
BasicResponses ==
    { HttpResponse(200, TRUE, "status" :> "OK"),
      HttpResponse(401, FALSE, EmptyDict),
      TransportError }

\* request(): every caller header mapping with the basic responses, and every
\* response with no caller headers
\* the JSON objects of error responses: [body, objects]
ErrorBodies ==
    { [body |-> "error" :> "Bad request", objects |-> EmptyDict],
      [body |-> "error" :> "Bad request" @@ "error_message" :> "ignored"
                @@ "description" :> "details", objects |-> EmptyDict],
      [body |-> EmptyDict, objects |-> "error" :> ("description" :> "nested")],
      [body |-> "description" :> "details", objects |-> "error" :> ("code" :> "E1")],
      [body |-> "error_message" :> "no item", objects |-> EmptyDict],
      [body |-> "msg" :> "no item" @@ "statusInfo" :> "ignored", objects |-> EmptyDict],
      [body |-> "description" :> "details", objects |-> EmptyDict],
      [body |-> "msg" :> "no item", objects |-> "description" :> ("lang" :> "en")] }

ErrorStatusCodes == {400, 404, 500}

\* responses with an error status and a JSON object as body
ErrorResponses ==
    { HttpResponseWith(c, b.body, b.objects) : c \in ErrorStatusCodes, b \in ErrorBodies }

NoArgs == [params |-> PyNone, json |-> PyNone, data |-> PyNone, files |-> PyNone]

\* values of the params, json, data and files arguments of request(): None, a
\* string, dictionaries with and without None values
ArgValues ==
    { PyNone,
      PyStr("raw"),
      PyDict(EmptyDict),
      PyDict("a" :> "1" @@ "b" :> None),
      PyDict("flag" :> PyTrue @@ "c" :> None @@ "d" :> PyFalse) }

\* the argument combinations: one argument given with the others absent, and
\* all four given with different values
RequestArgs ==
    { [NoArgs EXCEPT ![f] = v] : f \in {"params", "json", "data", "files"}, v \in ArgValues }
    \cup { [params |-> PyDict("flag" :> PyTrue @@ "c" :> None @@ "d" :> PyFalse),
             json |-> PyDict("a" :> "1" @@ "b" :> None),
             data |-> PyStr("raw"),
             files |-> PyDict("a" :> "1" @@ "b" :> None)],
           [params |-> PyDict("a" :> "1" @@ "b" :> None),
             json |-> PyDict(EmptyDict),
             data |-> PyDict("flag" :> PyTrue @@ "c" :> None @@ "d" :> PyFalse),
             files |-> PyNone] }

RequestInputs ==
    { [headers |-> h, accept_json |-> a, resp |-> r, args |-> NoArgs] :
        h \in CallerHeaders, a \in BOOLEAN, r \in BasicResponses }
    \cup { [headers |-> EmptyDict, accept_json |-> a, resp |-> r, args |-> NoArgs] :
             a \in BOOLEAN, r \in Responses }
    \cup { [headers |-> EmptyDict, accept_json |-> FALSE,
             resp |-> HttpResponse(200, TRUE, "status" :> "OK"), args |-> x] :
             x \in RequestArgs }
    \cup { [headers |-> EmptyDict, accept_json |-> TRUE, resp |-> r, args |-> NoArgs] :
             r \in ErrorResponses }

ItemIds == { [t |-> "int", n |-> 12, s |-> "12"], [t |-> "str", n |-> 0, s |-> "abc"] }

\* item data of create(): None, no attribute, attributes
ItemDatas ==
    { NoObject,
      [items |-> <<>>],
      [items |-> << <<"name", [t |-> "str", s |-> "pc"]>>,
                    <<"priority", [t |-> "int", s |-> "3"]>>,
                    <<"note", [t |-> "str", s |-> "<DEFAULT_NULL>"]>> >>] }

ItemNames == {"ticket", "knowbase", "bogus"}

\* the items of a fetched list
Item1 == [name |-> <<"A", "b", "c">>, content |-> <<"x">>]
Item2 == [name |-> <<"x", "y">>, content |-> <<"a", "B">>]
Item3 == [name |-> <<"b", "c">>, content |-> <<>>]
ItemNoContent == [name |-> <<"a", "b">>]

\* the lists get_all fetches for search
ItemLists ==
    { <<>>,
      <<Item1, Item2, Item3>>,
      <<Item3, Item1, Item1>>,
      <<Item2, ItemNoContent>> }

Criterion(field, value) == [field |-> field, value |-> value]

\* the value of the criteria key
CriteriaLists ==
    { <<>>,
      <<Criterion("name", <<"a", "B">>)>>,
      <<Criterion("name", <<"B", "C">>), Criterion("content", <<"b">>)>>,
      <<Criterion("content", <<"z">>)>>,
      <<Criterion("name", <<>>)>>,
      <<Criterion("name", <<"y">>), Criterion("name", <<"x">>)>> }

\* the dictionary handed to search(): its keys, and its criteria
SearchArgs ==
    { [keys |-> {"criteria"}, criteria |-> c] : c \in CriteriaLists }
    \cup { [keys |-> k, criteria |-> <<Criterion("name", <<"a", "B">>)>>] :
             k \in {{}, {"metacriteria"}, {"criteria", "metacriteria"}, {"other"}} }

\* search(): every criteria with the fetched lists for a known item, and every
\* form of the dictionary with the basic responses for every item name
SearchInputs ==
    { [item_name |-> "ticket", criteria |-> c, resp |-> HttpResponse(200, TRUE, [list |-> l])] :
        c \in SearchArgs, l \in ItemLists }
    \cup { [item_name |-> n, criteria |-> c, resp |-> r] :
             n \in ItemNames, r \in BasicResponses,
             c \in { x \in SearchArgs : x.criteria = <<Criterion("name", <<"a", "B">>)>> } }

\* the initSession outcomes to draw for a client: a single one when the client
\* has a token and asks for none
InitDraw(self) ==
    IF self = NoObject \/ self.session = None THEN InitResponses
    ELSE {[kind |-> "ok", token |-> "s1"]}

\* whether a call is set_session_token's: request() passes no auth
IsInitSession(call) == call.auth # NoObject

InitSessionCalls(cs) == {i \in DOMAIN cs : IsInitSession(cs[i])}
ResourceCalls(cs) == {i \in DOMAIN cs : ~IsInitSession(cs[i])}

\* the bookkeeping of an operation: r is [calls, result] and maybe response
Record(name, args, before, r) ==
    /\ op' = [name |-> name, args |-> args]
    /\ pre' = before
    /\ calls' = r.calls
    /\ result' = r.result
    /\ response' = IF "response" \in DOMAIN r THEN r.response ELSE NoResponse
    /\ n_init' = n_init + Cardinality(InitSessionCalls(r.calls))

InitCommon ==
    /\ op = [name |-> "none", args |-> EmptyDict]
    /\ pre = NoObject
    /\ calls = <<>>
    /\ result = NoResult
    /\ response = NoResponse
    /\ n_init = 0
    /\ items = <<>>
    /\ heap = [a \in Addresses |-> EmptyDict]

(***************************************************************************)
(* Construction of a GlpiService                                           *)
(***************************************************************************)
\* the arguments and the environment; the environment is read only when
\* use_vcap_services is set
CtorArgs ==
    { a \in [token_app : AppTokens, username : Usernames, password : Passwords,
             token_auth : AuthTokens, use_vcap_services : BOOLEAN, env : VcapEnvs] :
        ~a.use_vcap_services => a.env = NoObject }

Construct ==
    \E a \in CtorArgs :
        \E c \in { GlpiService_init(BaseUrl, a.token_app, "/Ticket", a.username, a.password,
                                     a.token_auth, a.use_vcap_services, "glpi", a.env) } :
           /\ service' = c.obj
           /\ Record("GlpiService", a, service, [calls |-> <<>>, result |-> c.result])
           /\ UNCHANGED <<glpi, items, heap>>

InitCtor == InitCommon /\ service = NoObject /\ glpi = NoObject

NextCtor == Construct

SpecCtor == InitCtor /\ [][NextCtor]_vars

(***************************************************************************)
(* A GlpiService used directly                                             *)
(***************************************************************************)
\* the clients: one with an auth token, one with username and password
ServiceObjects ==
    { GlpiService_init(BaseUrl, "app", "/Ticket", None, None, "auth", FALSE, None, NoObject).obj,
      GlpiService_init(BaseUrl, "app", "/Ticket", "glpi", "secret", None, FALSE, None, NoObject).obj }

\* an operation starts unless it may take the initSession calls past MaxInit
CanStart(self) == n_init < MaxInit \/ (self # NoObject /\ self.session # None)

SvcGetSessionToken ==
    /\ CanStart(service)
    /\ \E ir \in InitDraw(service) :
       \E r \in { get_session_token(service, ir) } :
           service' = r.obj /\ Record("get_session_token", EmptyDict, service, r)
    /\ UNCHANGED <<glpi, items, heap>>

SvcRequest ==
    /\ CanStart(service)
    /\ \E inp \in RequestInputs, ir \in InitDraw(service) :
       \E r \in { request(service, "GET", "/Ticket", inp.accept_json, PyDict(inp.headers),
                         inp.args.params, inp.args.json, inp.args.data, inp.args.files,
                         ir, inp.resp) } :
           /\ service' = r.obj
           /\ Record("request", [headers |-> inp.headers, accept_json |-> inp.accept_json,
                                 resp |-> inp.resp, params |-> inp.args.params,
                                 json |-> inp.args.json, data |-> inp.args.data,
                                 files |-> inp.args.files], service, r)
    /\ UNCHANGED <<glpi, items, heap>>

SvcGetAll ==
    /\ CanStart(service)
    /\ \E resp \in BasicResponses, ir \in InitDraw(service) :
       \E r \in { GlpiService_get_all(service, ir, resp) } :
           service' = r.obj /\ Record("get_all", EmptyDict, service, r)
    /\ UNCHANGED <<glpi, items, heap>>

SvcGet ==
    /\ CanStart(service)
    /\ \E item_id \in ItemIds, resp \in BasicResponses, ir \in InitDraw(service) :
       \E r \in { GlpiService_get(service, item_id, ir, resp) } :
           service' = r.obj /\ Record("get", [item_id |-> item_id], service, r)
    /\ UNCHANGED <<glpi, items, heap>>

SvcCreate ==
    /\ CanStart(service)
    /\ \E data \in ItemDatas, resp \in BasicResponses, ir \in InitDraw(service) :
       \E r \in { GlpiService_create(service, data, ir, resp) } :
           service' = r.obj /\ Record("create", [object_data |-> data], service, r)
    /\ UNCHANGED <<glpi, items, heap>>

SvcSearchOptions ==
    /\ CanStart(service)
    /\ \E item_name \in ItemNames, resp \in BasicResponses, ir \in InitDraw(service) :
       \E r \in { GlpiService_search_options(service, item_name, ir, resp) } :
           service' = r.obj /\ Record("search_options", [item_name |-> item_name], service, r)
    /\ UNCHANGED <<glpi, items, heap>>

\* the arguments of update_session_token: None, the empty string, a token
SessionIds == {None, "", "s2"}

SvcUpdateSessionToken ==
    /\ \E session_id \in SessionIds :
       \E r \in { update_session_token(service, session_id) } :
           /\ service' = r.obj
           /\ Record("update_session_token", [session_id |-> session_id], service, r)
    /\ UNCHANGED <<glpi, items, heap>>

InitService == InitCommon /\ service \in ServiceObjects /\ glpi = NoObject

NextService ==
    \/ SvcGetSessionToken
    \/ SvcRequest
    \/ SvcGetAll
    \/ SvcGet
    \/ SvcCreate
    \/ SvcSearchOptions
    \/ SvcUpdateSessionToken

SpecService == InitService /\ [][NextService]_vars

(***************************************************************************)
(* The router                                                              *)
(***************************************************************************)
\* a custom item map: two names on one path, no listSearchOptions entry
CustomItemMap == "ticket" :> "/Ticket" @@ "knowbase" :> "/Ticket"

RouterObjects ==
    { GLPI_init(BaseUrl, "app", "auth", NoObject),
      GLPI_init(BaseUrl, "app", None, NoObject),
      GLPI_init(BaseUrl, "app", "auth", PyDict(CustomItemMap)) }

\* An operation of the router issues at most one initSession call: init_api's
\* when there is no client, else request()'s when the client has no token.  One
\* outcome is drawn for it.

get_all ==
    /\ CanStart(glpi.api_rest)
    /\ \E item_name \in ItemNames, resp \in BasicResponses :
       \E ir \in InitDraw(glpi.api_rest) :
       \E r \in { GLPI_get_all(glpi, item_name, ir, ir, resp) } :
           glpi' = r.obj /\ Record("get_all", [item_name |-> item_name], glpi, r)
    /\ UNCHANGED <<service, items, heap>>

get ==
    /\ CanStart(glpi.api_rest)
    /\ \E item_name \in ItemNames, item_id \in ItemIds, resp \in BasicResponses :
       \E ir \in InitDraw(glpi.api_rest) :
       \E r \in { GLPI_get(glpi, item_name, item_id, ir, ir, resp) } :
           /\ glpi' = r.obj
           /\ Record("get", [item_name |-> item_name, item_id |-> item_id], glpi, r)
    /\ UNCHANGED <<service, items, heap>>

create ==
    /\ CanStart(glpi.api_rest)
    /\ \E item_name \in ItemNames, item_data \in ItemDatas, resp \in BasicResponses :
       \E ir \in InitDraw(glpi.api_rest) :
       \E r \in { GLPI_create(glpi, item_name, item_data, ir, ir, resp) } :
           /\ glpi' = r.obj
           /\ Record("create", [item_name |-> item_name, item_data |-> item_data], glpi, r)
    /\ UNCHANGED <<service, items, heap>>

search_options ==
    /\ CanStart(glpi.api_rest)
    /\ \E item_name \in ItemNames, resp \in BasicResponses :
       \E ir \in InitDraw(glpi.api_rest) :
       \E r \in { GLPI_search_options(glpi, item_name, ir, ir, resp) } :
           glpi' = r.obj /\ Record("search_options", [item_name |-> item_name], glpi, r)
    /\ UNCHANGED <<service, items, heap>>

search ==
    /\ CanStart(glpi.api_rest)
    /\ \E inp \in SearchInputs :
       \E ir \in InitDraw(glpi.api_rest) :
       \E r \in { GLPI_search(glpi, inp.item_name, inp.criteria, ir, ir, inp.resp) } :
           /\ glpi' = r.obj
           /\ Record("search", [item_name |-> inp.item_name, criteria |-> inp.criteria,
                                resp |-> inp.resp], glpi, r)
    /\ UNCHANGED <<service, items, heap>>

Init == InitCommon /\ service = NoObject /\ glpi \in RouterObjects

Next ==
    \/ get_all
    \/ get
    \/ create
    \/ search_options
    \/ search

Spec == Init /\ [][Next]_vars

(***************************************************************************)
(* The router, with its public setters called directly                     *)
(***************************************************************************)
\* the maps a caller hands to set_item_map
ItemMaps == {DefaultItemMap, CustomItemMap}

\* set_item(item_name) called by the user: the KeyError of the lookup leaves
\* the router as it was
SetItem ==
    /\ \E item_name \in ItemNames :
       \E r \in { IF item_name \in DOMAIN glpi.item_map
                  THEN [obj |-> set_item(glpi, item_name), calls |-> <<>>,
                        result |-> Return("None", EmptyDict)]
                  ELSE [obj |-> glpi, calls |-> <<>>,
                        result |-> Raise("KeyError", item_name)] } :
           glpi' = r.obj /\ Record("set_item", [item_name |-> item_name], glpi, r)
    /\ UNCHANGED <<service, items, heap>>

\* set_item_map(item_map) called by the user
SetItemMap ==
    /\ \E item_map \in ItemMaps :
       \E r \in { [obj |-> set_item_map(glpi, item_map), calls |-> <<>>,
                   result |-> Return("None", EmptyDict)] } :
           glpi' = r.obj /\ Record("set_item_map", [item_map |-> item_map], glpi, r)
    /\ UNCHANGED <<service, items, heap>>

\* search leaves the router as get_all with the same item name does, and is
\* left to Spec
NextSetters ==
    \/ get_all
    \/ get
    \/ create
    \/ search_options
    \/ SetItem
    \/ SetItemMap

SpecSetters == Init /\ [][NextSetters]_vars

(***************************************************************************)
(* GlpiItem objects                                                        *)
(***************************************************************************)
AttrNames == {"name", "status"}

\* the attributes set_attribute is called with
AttrPairs == { [attr |-> "name", value |-> "a"], [attr |-> "name", value |-> "b"],
               [attr |-> "status", value |-> "a"] }

\* the mappings handed to __init__ and set_attributes
AttrDicts ==
    { EmptyDict, "name" :> "b" @@ "status" :> "a" }

\* the items and the heap before an operation
ItemState == [items |-> items, heap |-> heap]

NoCalls(r) == [calls |-> <<>>, result |-> r]

ItemConstruct ==
    /\ Len(items) < MaxItems
    /\ \E data \in {PyNone} \cup {PyDict(d) : d \in AttrDicts} :
       \E r \in { GlpiItem_init(items, heap, data) } :
           /\ items' = r.items
           /\ heap' = r.heap
           /\ Record("GlpiItem", [data |-> data], ItemState,
                     NoCalls(Return("GlpiItem", EmptyDict)))
    /\ UNCHANGED <<service, glpi>>

ItemGetAttribute ==
    /\ \E i \in DOMAIN items, attr \in AttrNames :
           Record("get_attribute", [item |-> i, attr |-> attr], ItemState,
                  NoCalls(Return("value", [value |-> get_attribute(items[i], heap, attr)])))
    /\ UNCHANGED <<service, glpi, items, heap>>

ItemSetAttribute ==
    /\ \E i \in DOMAIN items, a \in AttrPairs :
           /\ heap' = set_attribute(items[i], heap, a.attr, a.value)
           /\ Record("set_attribute", [item |-> i, attr |-> a.attr, value |-> a.value],
                     ItemState, NoCalls(Return("None", EmptyDict)))
    /\ UNCHANGED <<service, glpi, items>>

ItemSetAttributes ==
    /\ \E i \in DOMAIN items, attributes \in AttrDicts :
           /\ heap' = set_attributes(items[i], heap, attributes)
           /\ Record("set_attributes", [item |-> i, attributes |-> attributes],
                     ItemState, NoCalls(Return("None", EmptyDict)))
    /\ UNCHANGED <<service, glpi, items>>

ItemUnsetAttributes ==
    /\ \E i \in DOMAIN items :
       \E r \in { unset_attributes(items, heap, i) } :
           /\ items' = r.items
           /\ heap' = r.heap
           /\ Record("unset_attributes", [item |-> i], ItemState,
                     NoCalls(Return("dict", r.heap[r.items[i].data])))
    /\ UNCHANGED <<service, glpi>>

InitItem == InitCommon /\ service = NoObject /\ glpi = NoObject

NextItem ==
    \/ ItemConstruct
    \/ ItemGetAttribute
    \/ ItemSetAttribute
    \/ ItemSetAttributes
    \/ ItemUnsetAttributes

SpecItem == InitItem /\ [][NextItem]_vars

(***************************************************************************)
(* Properties                                                              *)
(***************************************************************************)
HasToken(client) == client # NoObject /\ client.session # None

\* the value of header name in a resource call
HeaderOf(call, name) == call.headers[Lower(name)].val

RouterOps == {"get_all", "get", "create", "search_options"}

\* the item an operation of the router binds
BoundName(o) == IF o.name = "search_options" THEN "listSearchOptions" ELSE o.args.item_name

\* C1: in any sequence of request() and get_session_token() calls, a call made
\* with no cached token issues initSession before any resource call, and a call
\* made with a cached token issues no initSession and sends the cached token as
\* the Session-Token of its resource call.
C1_SessionBeforeResource ==
    op.name \in {"request", "get_session_token"} =>
        /\ pre.session = None => (calls # <<>> /\ IsInitSession(calls[1]))
        /\ pre.session # None =>
             /\ InitSessionCalls(calls) = {}
             /\ \A i \in ResourceCalls(calls) :
                    HeaderOf(calls[i], "Session-Token") = pre.session

\* C3: whatever headers the caller of request() supplies, the resource call is
\* sent with Session-Token equal to the cached session token and App-Token equal
\* to the client's app token.
C3_TokensNotOverridable ==
    op.name = "request" =>
        \A i \in ResourceCalls(calls) :
            /\ HeaderOf(calls[i], "Session-Token") = service.session
            /\ HeaderOf(calls[i], "App-Token") = service.app_token

Missing(v, placeholder) == v \in {None, placeholder}

\* C7: without an environment binding, construction fails with an InvalidArgument
\* error and no HTTP call whenever the app token is absent or neither credential
\* form is complete, and succeeds only with an app token and exactly one form.
C7_MissingCredentialsInvalidArgument ==
    (op.name = "GlpiService" /\ ~op.args.use_vcap_services) =>
        LET no_app == op.args.token_app = None
            auth_form == ~Missing(op.args.token_auth, "YOUR AUTH TOKEN")
            basic_form == /\ ~Missing(op.args.username, "YOUR SERVICE USERNAME")
                          /\ ~Missing(op.args.password, "YOUR SERVICE PASSWORD")
        IN /\ (no_app \/ (~auth_form /\ ~basic_form)) =>
                (/\ result.kind = "raise"
                 /\ result.type = "GlpiInvalidArgument"
                 /\ calls = <<>>)
           /\ result.kind = "return" => (~no_app /\ (auth_form # basic_form))

\* C8: request() with JSON parsing, on a 2xx response whose JSON body has status
\* "ERROR", raises GlpiException with the body's statusInfo as message and
\* re-maps the response status to 401 exactly when statusInfo is
\* "invalid-app-token", to 400 otherwise; any other 2xx JSON body is returned
\* unchanged.
C8_ApplicationErrorRaised ==
    (/\ op.name = "request"
     /\ op.args.accept_json
     /\ ResourceCalls(calls) # {}
     /\ op.args.resp.kind = "http"
     /\ 200 <= op.args.resp.status_code /\ op.args.resp.status_code <= 299
     /\ op.args.resp.parsable)
    => LET body == op.args.resp.body
           has_info == "statusInfo" \in DOMAIN body
       IN IF "status" \in DOMAIN body /\ body["status"] = "ERROR"
          THEN /\ result.kind = "raise"
               /\ result.type = "GlpiException"
               /\ has_info => result.value.msg = "Error: " \o body["statusInfo"]
               /\ response.status_code =
                    IF has_info /\ body["statusInfo"] = "invalid-app-token"
                    THEN 401 ELSE 400
          ELSE /\ result = Return("json", body)
               /\ response = op.args.resp

C8_Witness ==
    /\ op.name = "request"
    /\ op.args.accept_json
    /\ op.args.resp.status_code = 299
    /\ op.args.resp.parsable
    /\ op.args.resp.body = ("status" :> "ERROR" @@ "statusInfo" :> "invalid-app-token")
    /\ result.kind = "raise"
    /\ response.status_code = 401

\* C9: create() with None or with empty data returns an error object and issues
\* no HTTP call; with attributes (and a session token at hand) it issues exactly
\* one POST to the client's item path whose body is the {"input": {...}}
\* envelope of the attributes.
C9_CreateWithoutDataIssuesNoCall ==
    op.name = "create" =>
        IF op.args.object_data = NoObject
        THEN result.kind = "return" /\ calls = <<>>
        ELSE IF op.args.object_data.items = <<>>
        THEN result.kind = "return" /\ calls = <<>>
        ELSE HasToken(pre) =>
               /\ Len(calls) = 1
               /\ calls[1].method = "POST"
               /\ calls[1].url = pre.url \o pre.uri
               /\ calls[1].data =
                    PyStr("{\"input\": { " \o get_payload(op.args.object_data.items) \o " }}")

\* C10: get(item_id) with a non-integer id returns an error object, issues no
\* HTTP call and leaves the session token as it was; with an integer id (and a
\* session token at hand) it issues one GET to <item path>/<id>.
C10_GetByIdPath ==
    op.name = "get" =>
        IF op.args.item_id.t # "int"
        THEN /\ result.kind = "return"
             /\ "error_message" \in DOMAIN result.value
             /\ calls = <<>>
             /\ service.session = pre.session
        ELSE HasToken(pre) =>
               /\ Len(calls) = 1
               /\ calls[1].method = "GET"
               /\ calls[1].url = pre.url \o pre.uri \o "/" \o op.args.item_id.s

\* C2 as stated: of two consecutive router calls with different item names the
\* second leaves the bound path at the path of its item name and, with a token
\* cached, issues no initSession; and once session init has succeeded,
\* initSession has been issued exactly once.
C2_RebindOnceInitialised ==
    [][ (op'.name \in RouterOps /\ result'.type # "KeyError") =>
          /\ (/\ op.name \in RouterOps
              /\ op.args.item_name # op'.args.item_name
              /\ op'.args.item_name \in DOMAIN glpi'.item_map)
             => /\ glpi'.item_uri = glpi'.item_map[op'.args.item_name]
                /\ HasToken(glpi.api_rest) => InitSessionCalls(calls') = {}
          /\ HasToken(glpi'.api_rest) => n_init' = 1 ]_vars

\* C2, amended: of two consecutive router calls with different item names the
\* second leaves the router's and the client's path at the path of the item it
\* binds (its item name; listSearchOptions for search_options) and, with a token
\* cached, issues no initSession; once a token is cached no router call issues
\* initSession or changes the token, and a cached token means initSession was
\* issued at least once.
C2_RebindNoReinit ==
    [][ op'.name \in RouterOps =>
          /\ (/\ op.name \in RouterOps
              /\ op.args.item_name # op'.args.item_name
              /\ BoundName(op') \in DOMAIN glpi'.item_map)
             => /\ glpi'.item_uri = glpi'.item_map[BoundName(op')]
                /\ glpi'.api_rest # NoObject => glpi'.api_rest.uri = glpi'.item_uri
                /\ HasToken(glpi.api_rest) => InitSessionCalls(calls') = {}
          /\ HasToken(glpi.api_rest) =>
                /\ n_init' = n_init
                /\ InitSessionCalls(calls') = {}
                /\ glpi'.api_rest.session = glpi.api_rest.session
          /\ HasToken(glpi'.api_rest) => n_init' >= 1 ]_vars

C2_Witness ==
    /\ op.name = "get_all"
    /\ op.args.item_name = "knowbase"
    /\ HasToken(pre.api_rest)
    /\ pre.item_uri = "/Ticket"
    /\ glpi.item_uri = "/knowbaseitem"
    /\ glpi.api_rest.uri = "/knowbaseitem"
    /\ Len(calls) = 1
    /\ calls[1].url = BaseUrl \o "/knowbaseitem"
    /\ n_init = 1

\* readiness setup failed in the last router call: the client could not be
\* constructed, or the initSession call it issued left no token
ReadinessFailed ==
    /\ op.name \in RouterOps
    /\ BoundName(op) \in DOMAIN pre.item_map
    /\ \/ glpi.api_rest = NoObject
       \/ InitSessionCalls(calls) # {} /\ glpi.api_rest.session = None

\* C4: a router call whose readiness setup fails returns a structured error
\* object and does not raise, also when an earlier call's setup failed already
\* and session initialization keeps failing.
C4_ReadinessFailureIsSoft ==
    ReadinessFailed =>
        /\ result.kind = "return"
        /\ "message_error" \in DOMAIN result.value

\* C5: a router call with an item name that is not in the item map (for
\* search_options: a map without listSearchOptions) returns a {message_error}
\* object, issues no HTTP call and leaves the bound item path unchanged.
C5_UnknownItemIsSoft ==
    (op.name \in RouterOps /\ BoundName(op) \notin DOMAIN pre.item_map) =>
        /\ result.kind = "return"
        /\ "message_error" \in DOMAIN result.value
        /\ calls = <<>>
        /\ glpi.item_uri = pre.item_uri

\* what request() is to transmit of a params/body/files argument: a dictionary
\* without its None-valued entries and with every other entry (a boolean of
\* params as its literal), anything else as it is
Stripped(arg, is_params) ==
    IF arg.t # "dict" THEN arg
    ELSE PyDict([k \in {x \in DOMAIN arg.d : arg.d[x] # None} |->
                   IF is_params /\ arg.d[k] = PyTrue THEN "true"
                   ELSE IF is_params /\ arg.d[k] = PyFalse THEN "false"
                   ELSE arg.d[k]])

\* C11: the resource call of request() carries params, body (data and json) and
\* files each without its None-valued entries and with every other entry the
\* caller supplied.
C11_NullsStrippedIndependently ==
    op.name = "request" =>
        \A i \in ResourceCalls(calls) :
            /\ calls[i].params = Stripped(op.args.params, TRUE)
            /\ calls[i].data = Stripped(op.args.data, FALSE)
            /\ calls[i].json = Stripped(op.args.json, FALSE)
            /\ calls[i].files = Stripped(op.args.files, FALSE)

\* value occurs in the text of a field, letter case aside: some stretch of the
\* text reads as value does once both are lower-cased
OccursIn(value, text) ==
    \E a, b \in 0..Len(text) :
        /\ a <= b
        /\ str_lower(SubSeq(text, a + 1, b)) = str_lower(value)

\* item d matches at least one criterion
MatchesAny(d, criteria) ==
    \E i \in DOMAIN criteria : OccursIn(criteria[i].value, d[criteria[i].field])

\* the last operation was a search by criteria whose fetch gave a list of items
\* that carry every field the criteria name
SearchFetched ==
    /\ op.name = "search"
    /\ "criteria" \in op.args.criteria.keys
    /\ ResourceCalls(calls) # {}
    /\ op.args.resp.kind = "http"
    /\ op.args.resp.status_code = 200
    /\ "list" \in DOMAIN op.args.resp.body
    /\ \A k \in DOMAIN op.args.resp.body.list, i \in DOMAIN op.args.criteria.criteria :
           op.args.criteria.criteria[i].field \in DOMAIN op.args.resp.body.list[k]

\* C12: search by criteria returns the items of the fetched list that match at
\* least one criterion (the criterion's value occurs in the item's field, letter
\* case aside), in the order of the list, each position of the list at most
\* once.
C12_SearchReturnsMatches ==
    SearchFetched =>
        LET fetched == op.args.resp.body.list
            keep == {k \in DOMAIN fetched : MatchesAny(fetched[k], op.args.criteria.criteria)}
            nth(n) == CHOOSE k \in keep : Cardinality({x \in keep : x <= k}) = n
        IN /\ result.kind = "return"
           /\ result.type = "list"
           /\ Len(result.value.list) = Cardinality(keep)
           /\ \A n \in 1..Cardinality(keep) : result.value.list[n] = fetched[nth(n)]

C12_Witness ==
    /\ SearchFetched
    /\ op.args.criteria.criteria = <<Criterion("name", <<"a", "B">>)>>
    /\ op.args.resp.body.list = <<Item3, Item1, Item1>>
    /\ result = Return("list", [list |-> <<Item1, Item1>>])

\* C13: search with a metacriteria key and no criteria key returns the "not
\* implemented" object, search with neither key returns an error object; either
\* way no HTTP call is issued and the router, its bound path and its client
\* included, is as before.
C13_SearchWithoutCriteria ==
    (op.name = "search" /\ "criteria" \notin op.args.criteria.keys) =>
        /\ calls = <<>>
        /\ glpi = pre
        /\ result.kind = "return"
        /\ IF "metacriteria" \in op.args.criteria.keys
           THEN result.value = [message_info |-> "Not implemented yet"]
           ELSE DOMAIN result.value = {"message_error"}

C13_Witness ==
    /\ op.name = "search"
    /\ op.args.criteria.keys = {"metacriteria"}
    /\ HasToken(pre.api_rest)
    /\ result.value = [message_info |-> "Not implemented yet"]
    /\ glpi = pre

\* C14: a GlpiService constructed with the environment binding opted into has
\* every value that was passed explicitly (url, app token, username, password,
\* auth token) as passed; the binding fills only what was not supplied.
C14_ExplicitArgumentsWin ==
    (op.name = "GlpiService" /\ op.args.use_vcap_services /\ result.kind = "return") =>
        /\ service.url = BaseUrl
        /\ op.args.token_app # None => service.app_token = op.args.token_app
        /\ ~Missing(op.args.username, "YOUR SERVICE USERNAME") =>
              service.username = op.args.username
        /\ ~Missing(op.args.password, "YOUR SERVICE PASSWORD") =>
              service.password = op.args.password
        /\ ~Missing(op.args.token_auth, "YOUR AUTH TOKEN") =>
              service.token_auth = op.args.token_auth

\* text ends with suffix
EndsWith(text, suffix) ==
    /\ Len(text) >= Len(suffix)
    /\ SubSeq(text, Len(text) - Len(suffix) + 1, Len(text)) = suffix

\* the last operation was a request() whose resource call got a response with
\* a status that is neither 2xx nor 401
ErrorStatusReceived ==
    /\ op.name = "request"
    /\ ResourceCalls(calls) # {}
    /\ op.args.resp.kind = "http"
    /\ ~(200 <= op.args.resp.status_code /\ op.args.resp.status_code <= 299)
    /\ op.args.resp.status_code # 401

\* C15: on a response with a status that is neither 2xx nor 401, request()
\* raises GlpiException with a message that ends with the status code; when the
\* body is not JSON the message is "Unknown error, Code: <status>".
C15_ErrorMessageEndsWithCode ==
    ErrorStatusReceived =>
        /\ result.kind = "raise"
        /\ result.type = "GlpiException"
        /\ EndsWith(result.value.msg, ", Code: " \o FormatD(op.args.resp.status_code))
        /\ ~op.args.resp.parsable =>
              result.value.msg = "Unknown error, Code: " \o FormatD(op.args.resp.status_code)

\* the attribute mapping of item i
DataOf(its, hp, i) == hp[its[i].data]

\* C16: after set_attribute(name, v) on an item, get_attribute(name) gives v
\* and the item's other attributes are as before; after unset_attributes() the
\* item's data is the empty mapping and get_attribute of any name gives None;
\* get_attribute gives the value the data has and changes nothing.
C16_AttributeRoundTrip ==
    /\ op.name = "set_attribute" =>
          LET i == op.args.item
              before == DataOf(pre.items, pre.heap, i)
              after == DataOf(items, heap, i)
          IN /\ get_attribute(items[i], heap, op.args.attr) = op.args.value
             /\ DOMAIN after = DOMAIN before \cup {op.args.attr}
             /\ \A k \in DOMAIN before \ {op.args.attr} : after[k] = before[k]
    /\ op.name = "unset_attributes" =>
          /\ DataOf(items, heap, op.args.item) = EmptyDict
          /\ result.value = EmptyDict
          /\ \A k \in AttrNames : get_attribute(items[op.args.item], heap, k) = None
    /\ op.name = "get_attribute" =>
          LET d == DataOf(pre.items, pre.heap, op.args.item) IN
          /\ result.value.value = IF op.args.attr \in DOMAIN d THEN d[op.args.attr] ELSE None
          /\ items = pre.items /\ heap = pre.heap

C16_Witness ==
    /\ op.name = "set_attribute"
    /\ op.args.attr = "name"
    /\ op.args.value = "a"
    /\ DataOf(pre.items, pre.heap, op.args.item) = ("name" :> "b" @@ "status" :> "a")
    /\ DataOf(items, heap, op.args.item) = ("name" :> "a" @@ "status" :> "a")

\* C20: a set_attribute, set_attributes or unset_attributes on one item leaves
\* the attributes of every other item as they were, both items having been
\* constructed empty; and an item constructed empty has no attributes.
C20_EmptyItemsIndependent ==
    [][ /\ op'.name \in {"set_attribute", "set_attributes", "unset_attributes"} =>
            \A j \in DOMAIN items \ {op'.args.item} :
                (items[j].by_default /\ items[op'.args.item].by_default) =>
                    DataOf(items', heap', j) = DataOf(items, heap, j)
        /\ (op'.name = "GlpiItem" /\ op'.args.data = PyNone /\ Len(items') > Len(items)) =>
            DataOf(items', heap', Len(items')) = EmptyDict ]_vars

\* the resource calls among the calls of the last operation
ResourceCallsOf(cs) == { cs[i] : i \in ResourceCalls(cs) }

\* C17: after any sequence of router operations, direct set_item and
\* set_item_map calls included, a get_all, get or create that issues a resource
\* call issues it with the client's target path at the path the current item
\* map gives for the item name, which is the router's active item path too;
\* get_all and create send it to that path of the server.
C17_ResourceCallsFollowItemMap ==
    (op.name \in {"get_all", "get", "create"} /\ ResourceCallsOf(calls) # {}) =>
        /\ op.args.item_name \in DOMAIN glpi.item_map
        /\ glpi.api_rest.uri = glpi.item_map[op.args.item_name]
        /\ glpi.api_rest.uri = glpi.item_uri
        /\ op.name \in {"get_all", "create"} =>
             \A c \in ResourceCallsOf(calls) :
                 c.url = glpi.url \o glpi.item_map[op.args.item_name]

\* the messages of the exceptions that wrap a failure of session initialization
SessionErrorMessages ==
    {"Unable to init session in GLPI server: ", "Unable to get Session token. ERROR: "}

\* the last operation issued initSession and no token came of it
InitSessionFailed ==
    /\ op.name \in {"request", "get_session_token"}
    /\ InitSessionCalls(calls) # {}
    /\ service.session = None

\* C18: session initialization caches the returned token on success; when its
\* transport or the parsing of its answer fails, the operation raises the
\* session exception that wraps the cause, the token stays absent and no
\* resource call is issued; and a request made without a token, such as the one
\* after a failure, begins with initSession again.
C18_InitSessionFailureIsSessionError ==
    /\ (op.name \in {"request", "get_session_token"} /\ InitSessionCalls(calls) # {}) =>
          /\ pre.session = None
          /\ service.session = None \/ service.session \in Tokens
    /\ InitSessionFailed =>
          /\ result.kind = "raise"
          /\ result.type = "Exception"
          /\ result.value.msg \in SessionErrorMessages
          /\ ResourceCalls(calls) = {}
    /\ (op.name = "request" /\ pre.session = None) =>
          /\ calls # <<>>
          /\ IsInitSession(calls[1])

\* the operations of a GlpiService that issue a request
RequestOps == {"request", "get_all", "get", "create", "search_options"}

\* the caller of the last request gave a Session-Token header of their own
CallerSessionHeader ==
    /\ op.name = "request"
    /\ \E k \in DOMAIN op.args.headers :
          Lower(k) = "session-token" /\ op.args.headers[k] # None

====
